---------------------------- MODULE Spec2Model ----------------------------
(***************************************************************************)
(* A model of the user-management API: the zod schemas of                  *)
(* users/dto/user.schema.ts, UsersService and UsersController.             *)
(*                                                                         *)
(* Text values that the schema trims or lower-cases are sequences of       *)
(* one-character strings, so that trim() and toLowerCase() are computed.   *)
(* The relational table is the function `users` from id to row.  Each      *)
(* awaited prisma call is one atomic step; the synchronous code before an  *)
(* await runs in the same step as that await.                              *)
(***************************************************************************)
EXTENDS Integers, Sequences, FiniteSets, TLC

VARIABLES
    users,      \* the table: [id -> row], DOMAIN users the stored ids
    nextId,     \* number of ids the store has generated so far
    now,        \* the store's clock
    pc,         \* per client: where its request stands
    req,        \* per client: the request in hand, or the last one answered
    resp,       \* per client: the HTTP response of its last finished request
    created,    \* history: [id -> data of the create response], an entry
                \* dropped when that id is updated or deleted
    listReq,    \* the page and limit the last GET /users asked for
    listResp    \* the response of the last GET /users

vars == <<users, nextId, now, pc, req, resp, created, listReq, listResp>>

---------------------------------------------------------------------------
(* Bounds of the model.                                                    *)
MaxIds == 2
MaxClock == 2
MaxListUsers == 12

Clients == {"c1", "c2"}

(* Program constants.                                                      *)
NameMin == 2
NameMax == 100
ExtMin == 1
PhoneMin == 5
PasswordMin == 6
PasswordMax == 100
SkillFieldMin == 3
TagMin == 3
SkillsMin == 1
TagsMin == 1
DefaultPage == 1
DefaultLimit == 5
HttpCreated == 201
HttpOk == 200
HttpBadRequest == 400
HttpServerError == 500


---------------------------------------------------------------------------
(* String helpers: String.prototype.trim / toLowerCase and the e-mail      *)
(* format check of z.email().                                              *)

UpperLetters == {"A", "B"}
LowerLetters ==
    {"a", "b", "c", "d", "e", "f", "g", "h", "i", "j", "k", "l", "o", "x"}
Letters == UpperLetters \cup LowerLetters

toLowerCaseChar(ch) ==
    CASE ch = "A" -> "a"
      [] ch = "B" -> "b"
      [] OTHER -> ch

(* a schema without .toLowerCase()                                         *)
toLowerCaseOmitted(s) == s

toLowerCase(s) == [i \in 1..Len(s) |-> toLowerCaseChar(s[i])]

RECURSIVE trimStart(_)
trimStart(s) ==
    IF s # <<>> /\ Head(s) = " " THEN trimStart(Tail(s)) ELSE s

RECURSIVE trimEnd(_)
trimEnd(s) ==
    IF s # <<>> /\ s[Len(s)] = " " THEN trimEnd(SubSeq(s, 1, Len(s) - 1)) ELSE s

trim(s) == trimEnd(trimStart(s))

(* local@label.tld: a non-empty local part and label of letters, a top     *)
(* level domain of at least two letters, checked on the raw value.         *)
isEmail(s) ==
    \E at \in 1..Len(s), dot \in 1..Len(s) :
        /\ 1 < at /\ at + 1 < dot /\ dot + 2 <= Len(s)
        /\ s[at] = "@" /\ s[dot] = "."
        /\ \A i \in 1..Len(s) : i \notin {at, dot} => s[i] \in Letters

(* Date.parse over the date strings the requests carry: NaN for a string   *)
(* that is no date, else the time value (here in epoch days)               *)
isNaNDate(s) == s \notin {<<"2000-01-01">>, <<"1999-12-31">>}

DateParse(s) ==
    CASE s = <<"2000-01-01">> -> 10957
      [] s = <<"1999-12-31">> -> 10956

---------------------------------------------------------------------------
(* A request body is [kind, fields]: kind is what typeof / Array.isArray   *)
(* see ("object", "array", "null"), fields the object's own keys.          *)

Undefined == <<"undefined">>

Has(body, f) == f \in DOMAIN body.fields

Issue(path, message, mentions, received) ==
    [path |-> path, message |-> message, mentions |-> mentions,
     received |-> received]

RECURSIVE Concat(_)
Concat(ss) == IF ss = <<>> THEN <<>> ELSE Head(ss) \o Concat(Tail(ss))

MissingString == "Invalid input: expected string, received undefined"
MissingArray == "Invalid input: expected array, received undefined"

(* .min(lo, msg) and .max(hi, msg): checked on the raw value, before trim() *)
MinIssues(path, v, lo, msg, mentions) ==
    IF Len(v) < lo THEN <<Issue(path, msg, mentions, v)>> ELSE <<>>

MaxIssues(path, v, hi, msg, mentions) ==
    IF Len(v) > hi THEN <<Issue(path, msg, mentions, v)>> ELSE <<>>

NameIssues(v) ==
    MinIssues("name", v, NameMin, "Name must be at least 2 characters long", TRUE)
    \o MaxIssues("name", v, NameMax, "Name must be less than 100 characters", TRUE)

ExtIssues(v) ==
    MinIssues("ext", v, ExtMin, "Phone country code is required", FALSE)

PhoneIssues(v) ==
    MinIssues("phone", v, PhoneMin,
              "Phone number must be at least 5 characters long", TRUE)

EmailIssues(v) ==
    IF ~isEmail(v)
    THEN <<Issue("email", "Please provide a valid email address", TRUE, v)>>
    ELSE <<>>

DateOfBirthIssues(v) ==
    IF isNaNDate(v)
    THEN <<Issue("dateOfBirth", "Date of birth must be a valid date", FALSE, v)>>
    ELSE <<>>

PasswordIssues(v) ==
    MinIssues("password", v, PasswordMin,
              "Password must be at least 6 characters long", TRUE)
    \o MaxIssues("password", v, PasswordMax,
                 "Password must be less than 100 characters", TRUE)

TagIssues(path, tags) ==
    Concat([j \in 1..Len(tags) |->
        MinIssues(path \o "." \o ToString(j - 1), tags[j], TagMin,
                  "Each skill tag must be at least 3 characters long", FALSE)])
    \o MinIssues(path, tags, TagsMin, "At least one skill tag is required", FALSE)

SkillIssues(path, skill) ==
    MinIssues(path \o ".field", skill.field, SkillFieldMin,
              "Skill field must be at least 3 characters long", FALSE)
    \o TagIssues(path \o ".tags", skill.tags)

SkillsIssues(v) ==
    Concat([i \in 1..Len(v) |-> SkillIssues("skills." \o ToString(i - 1), v[i])])
    \o MinIssues("skills", v, SkillsMin, "At least one skill is required", FALSE)

SchemaKeys ==
    <<"name", "ext", "phone", "email", "dateOfBirth", "password", "skills">>

KeySet == {SchemaKeys[i] : i \in 1..Len(SchemaKeys)}

(* the issues of key f of the body, f required                             *)
FieldIssues(body, f) ==
    IF ~Has(body, f)
    THEN <<Issue(f, CASE f = "skills" -> MissingArray
                      [] f = "email" -> "Please provide a valid email address"
                      [] OTHER -> MissingString,
                 f = "email", Undefined)>>
    ELSE LET v == body.fields[f]
         IN  CASE f = "name" -> NameIssues(v)
               [] f = "ext" -> ExtIssues(v)
               [] f = "phone" -> PhoneIssues(v)
               [] f = "email" -> EmailIssues(v)
               [] f = "dateOfBirth" -> DateOfBirthIssues(v)
               [] f = "password" -> PasswordIssues(v)
               [] f = "skills" -> SkillsIssues(v)

(* the parsed (output) value of a field that passed its checks             *)
FieldValue(f, v) ==
    CASE f = "name" -> trim(v)
      [] f = "ext" -> trim(v)
      [] f = "phone" -> trim(v)
      [] f = "email" -> toLowerCase(trim(v))
      [] f = "dateOfBirth" -> DateParse(v)
      [] f = "password" -> v
      [] f = "skills" ->
            [i \in 1..Len(v) |->
                [field |-> trim(v[i].field),
                 tags |-> [j \in 1..Len(v[i].tags) |-> trim(v[i].tags[j])]]]

(* CreateUserSchema.safeParse: every key is required; unknown keys are      *)
(* stripped                                                                *)
CreateUserSchema(body) ==
    LET issues == Concat([i \in 1..Len(SchemaKeys) |->
                             FieldIssues(body, SchemaKeys[i])])
    IN  IF issues = <<>>
        THEN [success |-> TRUE,
              data |-> [f \in KeySet |-> FieldValue(f, body.fields[f])]]
        ELSE [success |-> FALSE, issues |-> issues]

(* UpdateUserSchema = CreateUserSchema.partial(): a key that is absent is   *)
(* left out of the output, a key that is present is checked as on create   *)
UpdateUserSchema(body) ==
    LET present == SelectSeq(SchemaKeys, LAMBDA f : Has(body, f))
        issues == Concat([i \in 1..Len(present) |->
                             FieldIssues(body, present[i])])
    IN  IF issues = <<>>
        THEN [success |-> TRUE,
              data |-> [f \in KeySet \cap DOMAIN body.fields |->
                            FieldValue(f, body.fields[f])]]
        ELSE [success |-> FALSE, issues |-> issues]

---------------------------------------------------------------------------
(* The table behind prisma.user.  A row carries the schema's keys, the id   *)
(* the store generates and the two timestamps the store maintains.         *)

IdOf(n) == "u" \o ToString(n)
Ids == {IdOf(n) : n \in 1..MaxIds}

Rows == {users[id] : id \in DOMAIN users}

(* prisma.user.findUnique({where: {email}}) finds a row                    *)
findUniqueByEmail(email) == \E id \in DOMAIN users : users[id].email = email

(* the uniqueness check without NOT: {id}                                  *)
findFirstWithEmail(email, id) == findUniqueByEmail(email)

(* prisma.user.findFirst({where: {email, NOT: {id}}}) finds a row          *)
findFirstOtherWithEmail(email, id) ==
    \E other \in DOMAIN users : other # id /\ users[other].email = email

(* a lookup that ignores the id it is given                                *)
getUserByIdFirst(id) ==
    IF DOMAIN users = {} THEN <<>> ELSE <<users[CHOOSE i \in DOMAIN users : TRUE]>>

(* prisma.user.findUnique({where: {id}}): the row, or none (null)           *)
getUserById(id) == IF id \in DOMAIN users THEN <<users[id]>> ELSE <<>>

(* a table whose email column is not a unique key                          *)
NoUniqueConstraint(email, id) == FALSE

(* email is a unique key of the table (findUnique is keyed by it): a write  *)
(* that would give two rows the same email is refused by the store         *)
UniqueConstraintFails(email, id) ==
    \E other \in DOMAIN users : other # id /\ users[other].email = email

(* the timestamp the store writes into createdAt (on insert) and           *)
(* updatedAt (on insert and on every update): the store's time of the write *)
StoreTimestamp(t) == t

(* the row prisma.user.create inserts                                      *)
NewRow(id, data, t) ==
    [id |-> id, name |-> data.name, ext |-> data.ext, phone |-> data.phone,
     email |-> data.email, dateOfBirth |-> data.dateOfBirth,
     password |-> data.password, skills |-> data.skills,
     createdAt |-> StoreTimestamp(t), updatedAt |-> StoreTimestamp(t)]

(* an update that also resets createdAt                                    *)
UpdatedRowResettingCreatedAt(row, data, t) ==
    [f \in DOMAIN row |->
        IF f \in {"updatedAt", "createdAt"} THEN StoreTimestamp(t)
        ELSE IF f \in DOMAIN data THEN data[f] ELSE row[f]]

(* the row prisma.user.update leaves: the keys of data overwritten,         *)
(* updatedAt set by the store                                              *)
UpdatedRow(row, data, t) ==
    [f \in DOMAIN row |->
        IF f = "updatedAt" THEN StoreTimestamp(t)
        ELSE IF f \in DOMAIN data THEN data[f] ELSE row[f]]

---------------------------------------------------------------------------
(* Responses.  A BadRequestException that reaches the framework is answered *)
(* 400 with its message; any other exception 500.                          *)

NoResp == [kind |-> "none"]
NoReq == [op |-> "none"]

Envelope(status, success, message) ==
    [kind |-> "http", status |-> status, success |-> success,
     message |-> message]

WithData(r, row) == [kind |-> r.kind, status |-> r.status,
                     success |-> r.success, message |-> r.message,
                     data |-> row]

WithErrors(r, errors) == [kind |-> r.kind, status |-> r.status,
                          success |-> r.success, message |-> r.message,
                          errors |-> errors]

BadRequest(message) ==
    [kind |-> "http", status |-> HttpBadRequest, error |-> "Bad Request",
     message |-> message]

InternalServerError ==
    [kind |-> "http", status |-> HttpServerError,
     message |-> "Internal server error"]

(* a not-found message that leaves the id out                              *)
NotFoundWithoutId(id) == "User not found"

NotFoundMessage(id) == "User with id " \o id \o " not found"

(* UsersController.createUser: the handler returns in both branches, so     *)
(* the @HttpCode of the route is the status of both                        *)
CreateStatus == HttpCreated

CreateSucceeded(row) ==
    WithData(Envelope(CreateStatus, TRUE, "User created successfully"), row)

CreateFailed(message, errors) ==
    WithErrors(Envelope(CreateStatus, FALSE, message), errors)

IsObject(body) == body.kind = "object"

(* the field/message/receivedValue triple of one zod issue                 *)
FormatIssue(issue) ==
    LET field == IF issue.path = "" THEN "root" ELSE issue.path
    IN  [field |-> field,
         message |-> IF ~issue.mentions /\ field # "root"
                     THEN field \o ": " \o issue.message
                     ELSE issue.message,
         receivedValue |-> issue.received]

RECURSIVE JoinIssues(_)
JoinIssues(issues) ==
    IF Len(issues) = 0 THEN ""
    ELSE Head(issues).path \o ": " \o Head(issues).message
         \o (IF Len(issues) = 1 THEN "" ELSE ", " \o JoinIssues(Tail(issues)))

Respond(c, r) ==
    /\ resp' = [resp EXCEPT ![c] = r]
    /\ pc' = [pc EXCEPT ![c] = "idle"]
    /\ UNCHANGED req

Goto(c, stage) ==
    /\ pc' = [pc EXCEPT ![c] = stage]
    /\ UNCHANGED <<req, resp>>

---------------------------------------------------------------------------
(* The requests the clients send.                                          *)

NameAl == <<"A", "l">>
NamePadded == <<" ", "B", "o", " ">>
NameShort == <<"x">>
EmailUpper == <<"A", "@", "x", ".", "i", "o">>
EmailLower == <<"a", "@", "x", ".", "i", "o">>
EmailOther == <<"b", "@", "x", ".", "i", "o">>

ValidFields(name, email) ==
    [name |-> name, ext |-> <<"+", "1">>, phone |-> <<"5", "5", "5", "0", "1">>,
     email |-> email, dateOfBirth |-> <<"2000-01-01">>,
     password |-> <<"s", "e", "c", "r", "e", "t">>,
     skills |-> << [field |-> <<"o", "p", "s", " ">>,
                    tags |-> << <<"a", "b", "c">> >>] >>]

Without(fields, k) == [f \in DOMAIN fields \ {k} |-> fields[f]]

ObjectBody(fields) == [kind |-> "object", fields |-> fields]
ArrayBody == [kind |-> "array", fields |-> <<>>]

CreateBodies ==
    {ArrayBody, ObjectBody(Without(ValidFields(NameAl, EmailLower), "skills"))}
    \cup {ObjectBody(ValidFields(NameAl, e)) :
             e \in {EmailUpper, EmailLower, EmailOther}}

UpdateBodies ==
    {ArrayBody,
     ObjectBody([name |-> NamePadded]),
     ObjectBody([name |-> NameShort]),
     ObjectBody([email |-> EmailUpper]),
     ObjectBody([id |-> <<"u", "9">>, email |-> EmailOther])}

Requests ==
    {[op |-> "create", body |-> b] : b \in CreateBodies}
    \cup {[op |-> "get", id |-> id] : id \in Ids}
    \cup {[op |-> "delete", id |-> id] : id \in Ids}
    \cup {[op |-> "update", id |-> id, body |-> b] : id \in Ids, b \in UpdateBodies}

(* the requests that write: those whose store calls can interleave to an    *)
(* effect                                                                  *)
WritingRequests ==
    {r \in Requests :
        CASE r.op = "create" -> IsObject(r.body) /\ CreateUserSchema(r.body).success
          [] r.op = "update" -> IsObject(r.body) /\ UpdateUserSchema(r.body).success
          [] r.op = "delete" -> TRUE
          [] r.op = "get" -> FALSE}

CreatesInFlight == Cardinality({c \in Clients : pc[c] \in {"create", "create_write"}})

---------------------------------------------------------------------------
(* The handlers, one action per awaited store call.                        *)

(* a request reaches its route handler; the store generates at most MaxIds  *)
(* ids                                                                     *)
Receive(c, sent) ==
    /\ pc[c] = "idle"
    /\ \E r \in sent :
        /\ r.op = "create" => nextId + CreatesInFlight < MaxIds
        /\ req' = [req EXCEPT ![c] = r]
        /\ pc' = [pc EXCEPT ![c] = r.op]
    /\ resp' = [resp EXCEPT ![c] = NoResp]
    /\ UNCHANGED <<users, nextId, now, created, listReq, listResp>>

(* UsersService.createUser up to the duplicate check, as answered by       *)
(* UsersController.createUser                                              *)
CreateCheck(c) ==
    /\ pc[c] = "create"
    /\ LET body == req[c].body
           result == CreateUserSchema(body)
       IN  IF ~IsObject(body)
           THEN Respond(c, CreateFailed("Invalid request body",
                    <<[field |-> "body",
                       message |-> "Request body must be a valid JSON object"]>>))
           ELSE IF ~result.success
           THEN Respond(c, CreateFailed("Validation failed",
                    [i \in 1..Len(result.issues) |-> FormatIssue(result.issues[i])]))
           ELSE IF findUniqueByEmail(result.data.email)
           THEN Respond(c, CreateFailed("User already exists",
                    <<[field |-> "email",
                       message |-> "User with this email already exists",
                       receivedValue |-> result.data.email]>>))
           ELSE Goto(c, "create_write")
    /\ UNCHANGED <<users, nextId, now, created, listReq, listResp>>

(* prisma.user.create inside the try of UsersService.createUser            *)
CreateWrite(c) ==
    /\ pc[c] = "create_write"
    /\ LET data == CreateUserSchema(req[c].body).data
           id == IdOf(nextId + 1)
           row == NewRow(id, data, now)
       IN  IF UniqueConstraintFails(data.email, id)
           THEN /\ Respond(c, CreateFailed("Failed to create user",
                      <<[field |-> "server",
                         message |-> "Internal server error occurred while creating user"]>>))
                /\ UNCHANGED <<users, nextId, created>>
           ELSE /\ users' = [i \in DOMAIN users \cup {id} |->
                                IF i = id THEN row ELSE users[i]]
                /\ nextId' = nextId + 1
                /\ Respond(c, CreateSucceeded(row))
                /\ created' = [i \in DOMAIN created \cup {id} |->
                                  IF i = id THEN resp'[c].data ELSE created[i]]
    /\ UNCHANGED <<now, listReq, listResp>>

(* UsersService.getUserById and UsersController.getUserById                *)
GetUserById(c) ==
    /\ pc[c] = "get"
    /\ LET user == getUserById(req[c].id)
       IN  IF Len(user) = 0
           THEN Respond(c, Envelope(HttpOk, FALSE, "User not found"))
           ELSE Respond(c, WithData(Envelope(HttpOk, TRUE,
                               "User retrieved successfully"), user[1]))
    /\ UNCHANGED <<users, nextId, now, created, listReq, listResp>>

(* UsersService.deleteUser: the existence check                            *)
DeleteCheck(c) ==
    /\ pc[c] = "delete"
    /\ IF req[c].id \in DOMAIN users
       THEN Goto(c, "delete_write")
       ELSE Respond(c, BadRequest(NotFoundMessage(req[c].id)))
    /\ UNCHANGED <<users, nextId, now, created, listReq, listResp>>

(* prisma.user.delete: it throws when the row is gone, and neither the      *)
(* service nor the controller turns that into a BadRequestException        *)
DeleteWrite(c) ==
    /\ pc[c] = "delete_write"
    /\ LET id == req[c].id
       IN  IF id \in DOMAIN users
           THEN /\ users' = [i \in DOMAIN users \ {id} |-> users[i]]
                /\ created' = [i \in DOMAIN created \ {id} |-> created[i]]
                /\ Respond(c, WithData(Envelope(HttpOk, TRUE,
                                  "User deleted successfully"), users[id]))
           ELSE /\ Respond(c, InternalServerError)
                /\ UNCHANGED <<users, created>>
    /\ UNCHANGED <<nextId, now, listReq, listResp>>

(* UsersService.updateUser up to the existence check                       *)
UpdateCheck(c) ==
    /\ pc[c] = "update"
    /\ LET body == req[c].body
           validationResult == UpdateUserSchema(body)
       IN  IF ~IsObject(body)
           THEN Respond(c, BadRequest("Invalid input: Expected an object"))
           ELSE IF ~validationResult.success
           THEN Respond(c, BadRequest("Validation failed: "
                               \o JoinIssues(validationResult.issues)))
           ELSE IF req[c].id \notin DOMAIN users
           THEN Respond(c, BadRequest(NotFoundMessage(req[c].id)))
           ELSE IF "email" \in DOMAIN validationResult.data
           THEN Goto(c, "update_email")
           ELSE Goto(c, "update_write")
    /\ UNCHANGED <<users, nextId, now, created, listReq, listResp>>

(* UsersService.updateUser: the uniqueness check of a changed email        *)
UpdateEmailCheck(c) ==
    /\ pc[c] = "update_email"
    /\ IF findFirstOtherWithEmail(UpdateUserSchema(req[c].body).data.email, req[c].id)
       THEN Respond(c, BadRequest("Email already exists"))
       ELSE Goto(c, "update_write")
    /\ UNCHANGED <<users, nextId, now, created, listReq, listResp>>

(* prisma.user.update: it throws when the row is gone or the unique key     *)
(* on email would be broken; the exception is not caught                   *)
UpdateWrite(c) ==
    /\ pc[c] = "update_write"
    /\ LET id == req[c].id
           validatedData == UpdateUserSchema(req[c].body).data
       IN  IF \/ id \notin DOMAIN users
              \/ /\ "email" \in DOMAIN validatedData
                 /\ UniqueConstraintFails(validatedData.email, id)
           THEN /\ Respond(c, InternalServerError)
                /\ UNCHANGED <<users, created>>
           ELSE /\ users' = [users EXCEPT ![id] = UpdatedRow(@, validatedData, now)]
                /\ created' = [i \in DOMAIN created \ {id} |-> created[i]]
                /\ Respond(c, WithData(Envelope(HttpOk, TRUE,
                                  "User updated successfully"), users'[id]))
    /\ UNCHANGED <<nextId, now, listReq, listResp>>

(* time passes at the store                                                *)
Tick ==
    /\ now < MaxClock
    /\ now' = now + 1
    /\ UNCHANGED <<users, nextId, pc, req, resp, created, listReq, listResp>>

NoListReq == [sent |-> FALSE]

Init ==
    /\ users = <<>>
    /\ nextId = 0
    /\ now = 0
    /\ pc = [c \in Clients |-> "idle"]
    /\ req = [c \in Clients |-> NoReq]
    /\ resp = [c \in Clients |-> NoResp]
    /\ created = <<>>
    /\ listReq = NoListReq
    /\ listResp = NoResp

Handle(c) ==
    \/ CreateCheck(c)
    \/ CreateWrite(c)
    \/ DeleteCheck(c)
    \/ DeleteWrite(c)
    \/ UpdateCheck(c)
    \/ UpdateEmailCheck(c)
    \/ UpdateWrite(c)

(* writing requests of several clients, their store calls interleaved      *)
Next == \E c \in Clients : Receive(c, WritingRequests) \/ Handle(c)

Spec == Init /\ [][Next]_vars

(* one request at a time, each run to its response before the next         *)
SeqNext ==
    \/ Receive("c1", Requests)
    \/ Handle("c1")
    \/ GetUserById("c1")
    \/ Tick

SeqSpec == Init /\ [][SeqNext]_vars

---------------------------------------------------------------------------
(* GET /users.  A query parameter is absent or a string; a number is an     *)
(* integer, NaN or undefined.                                              *)

Absent == [t |-> "undefined"]
Str(chars) == [t |-> "string", s |-> chars]
Int_(n) == [t |-> "int", n |-> n]
NaN == [t |-> "nan"]

(* what `v ? a : b` and `v || d` test                                      *)
Truthy(v) ==
    CASE v.t = "undefined" -> FALSE
      [] v.t = "nan" -> FALSE
      [] v.t = "int" -> v.n # 0
      [] v.t = "string" -> Len(v.s) > 0

DigitChars == <<"0", "1", "2", "3", "4", "5", "6", "7", "8", "9">>
IsDigit(ch) == \E d \in 1..Len(DigitChars) : DigitChars[d] = ch
DigitValue(ch) == (CHOOSE d \in 1..Len(DigitChars) : DigitChars[d] = ch) - 1

RECURSIVE DigitPrefix(_)
DigitPrefix(s) ==
    IF s # <<>> /\ IsDigit(Head(s)) THEN <<Head(s)>> \o DigitPrefix(Tail(s))
    ELSE <<>>

RECURSIVE DigitsValue(_)
DigitsValue(ds) ==
    IF ds = <<>> THEN 0
    ELSE DigitsValue(SubSeq(ds, 1, Len(ds) - 1)) * Len(DigitChars)
         + DigitValue(ds[Len(ds)])

(* parseInt(string): leading blanks, a sign, then the digits up to the      *)
(* first character that is none; NaN when there is no digit                *)
parseInt(str) ==
    LET t == trimStart(str)
        signed == t # <<>> /\ Head(t) \in {"-", "+"}
        digits == DigitPrefix(IF signed THEN Tail(t) ELSE t)
    IN  IF digits = <<>> THEN NaN
        ELSE Int_((IF signed /\ Head(t) = "-" THEN -1 ELSE 1) * DigitsValue(digits))

(* UsersController.getAllUsers: the PaginationQuery of a query string      *)
PaginationQuery(query) ==
    [page |-> IF Truthy(query.page) THEN parseInt(query.page.s) ELSE Absent,
     limit |-> IF Truthy(query.limit) THEN parseInt(query.limit.s) ELSE Absent]

Min(a, b) == IF a < b THEN a ELSE b
Max(a, b) == IF a > b THEN a ELSE b

(* Math.floor in the place of Math.ceil                                    *)
FloorDiv(a, b) == IF b > 0 THEN a \div b ELSE -((a + (-b) - 1) \div (-b))

(* Math.ceil(a / b) for integers a >= 0 and b # 0                          *)
CeilDiv(a, b) == IF b > 0 THEN (a + b - 1) \div b ELSE -(a \div (-b))

(* query.page || 1 and query.limit || 5                                    *)
OrDefault(v, d) == IF Truthy(v) THEN v.n ELSE d

(* Math.max(1, Math.min(page, totalPages))                                 *)
ClampPage(page, totalPages) == Max(1, Min(page, totalPages))

(* the stored ids, latest createdAt first                                  *)
RECURSIVE OrderByCreatedAtDesc(_)
OrderByCreatedAtDesc(ids) ==
    IF ids = {} THEN <<>>
    ELSE LET first == CHOOSE i \in ids :
                          \A j \in ids : users[j].createdAt <= users[i].createdAt
         IN  <<first>> \o OrderByCreatedAtDesc(ids \ {first})

(* prisma.user.findMany({skip, take, orderBy: {createdAt: 'desc'}}) with    *)
(* skip >= 0: a negative take counts from the end of the ordered rows      *)
findMany(skip, take) ==
    LET ordered == OrderByCreatedAtDesc(DOMAIN users)
        n == Len(ordered)
        ids == IF take >= 0
               THEN SubSeq(ordered, skip + 1, Min(n, skip + take))
               ELSE SubSeq(ordered, Max(1, n - skip + take + 1), n - skip)
    IN  [k \in 1..Len(ids) |-> users[ids[k]]]

(* UsersService.getAllUsers                                                *)
getAllUsers(query) ==
    LET page == OrDefault(query.page, DefaultPage)
        limit == OrDefault(query.limit, DefaultLimit)
        totalUsers == Cardinality(DOMAIN users)
        totalPages == CeilDiv(totalUsers, limit)
        currentPage == ClampPage(page, totalPages)
        offset == (currentPage - 1) * limit
    IN  [data |-> findMany(offset, limit),
         totalUsers |-> totalUsers,
         totalPages |-> totalPages,
         currentPage |-> currentPage,
         limit |-> limit,
         hasNext |-> currentPage < totalPages,
         hasPrev |-> currentPage > 1]

(* the decimal text of an integer, as a client writes it into the query    *)
RECURSIVE DecimalDigits(_)
DecimalDigits(n) ==
    (IF n >= Len(DigitChars) THEN DecimalDigits(n \div Len(DigitChars)) ELSE <<>>)
    \o <<DigitChars[(n % Len(DigitChars)) + 1]>>

Decimal(n) == IF n < 0 THEN <<"-">> \o DecimalDigits(-n) ELSE DecimalDigits(n)

NotGiven == [given |-> FALSE]
Given(n) == [given |-> TRUE, n |-> n]
QueryParam(p) == IF p.given THEN Str(Decimal(p.n)) ELSE Absent

PageInputs == {NotGiven} \cup {Given(n) : n \in {-1, 0, 1, 2, 3, 4, 13, 99}}
LimitInputs == {NotGiven} \cup {Given(n) : n \in {-2, -1, 0, 1, 2, 5, 12}}

(* UsersController.getAllUsers                                             *)
GetAllUsers ==
    /\ \E p \in PageInputs, l \in LimitInputs :
        \E result \in {getAllUsers(PaginationQuery(
                            [page |-> QueryParam(p), limit |-> QueryParam(l)]))} :
            /\ listReq' = [sent |-> TRUE, page |-> p, limit |-> l]
            /\ listResp' =
                  [kind |-> "http", status |-> HttpOk, success |-> TRUE,
                   message |-> "Users retrieved successfully",
                   data |-> result.data, totalUsers |-> result.totalUsers,
                   totalPages |-> result.totalPages,
                   currentPage |-> result.currentPage, limit |-> result.limit,
                   hasNext |-> result.hasNext, hasPrev |-> result.hasPrev]
    /\ UNCHANGED <<users, nextId, now, pc, req, resp, created>>

(* the table after n users were created one after the other, at distinct    *)
(* times, with distinct emails                                             *)
EmailOf(i) == [k \in 1..i |-> "a"] \o <<"@", "x", ".", "i", "o">>

TableOf(n) ==
    [id \in {IdOf(i) : i \in 1..n} |->
        LET i == CHOOSE k \in 1..n : IdOf(k) = id
        IN  NewRow(id, CreateUserSchema(ObjectBody(ValidFields(NameAl, EmailOf(i)))).data, i)]

ListInit ==
    /\ \E n \in 0..MaxListUsers :
        /\ users = TableOf(n)
        /\ nextId = n
        /\ now = n
    /\ pc = [c \in Clients |-> "idle"]
    /\ req = [c \in Clients |-> NoReq]
    /\ resp = [c \in Clients |-> NoResp]
    /\ created = <<>>
    /\ listReq = NoListReq
    /\ listResp = NoResp

ListNext == GetAllUsers

ListSpec == ListInit /\ [][ListNext]_vars

---------------------------------------------------------------------------
(* The properties.  What they say about text is stated here without the     *)
(* schema's own trim and toLowerCase.                                      *)

CasePairs == {<<"A", "a">>, <<"B", "b">>}

SameIgnoringCase(s, t) ==
    /\ Len(s) = Len(t)
    /\ \A i \in 1..Len(s) :
        s[i] = t[i] \/ <<s[i], t[i]>> \in CasePairs \/ <<t[i], s[i]>> \in CasePairs

IsLowerCased(s) == \A i \in 1..Len(s) : \A p \in CasePairs : s[i] # p[1]

Blanks(n) == [k \in 1..n |-> " "]

(* t is raw without the blanks around it                                   *)
IsTrimOf(t, raw) ==
    /\ t = <<>> \/ (t[1] # " " /\ t[Len(t)] # " ")
    /\ \E a, b \in 0..Len(raw) :
        a + Len(t) + b = Len(raw) /\ raw = Blanks(a) \o t \o Blanks(b)

IsHttp(r) == r.kind = "http"
Answered(c, op) == pc[c] = "idle" /\ req[c].op = op /\ IsHttp(resp[c])

(* client c's request is answered in this step                             *)
Answers(c, op) == pc[c] # "idle" /\ pc'[c] = "idle" /\ req[c].op = op

WithEmail(table, email) ==
    {id \in DOMAIN table : SameIgnoringCase(table[id].email, email)}

C2_DuplicateIgnoringCase ==
    [][\A c \in Clients :
        (/\ Answers(c, "create")
         /\ IsObject(req[c].body)
         /\ CreateUserSchema(req[c].body).success)
        => LET raw == req[c].body.fields.email
           IN  /\ IF WithEmail(users, raw) # {}
                  THEN /\ resp'[c].success = FALSE
                       /\ resp'[c].message = "User already exists"
                       /\ resp'[c].errors[1].field = "email"
                       /\ users' = users
                  ELSE /\ resp'[c].success = TRUE
                       /\ IsLowerCased(resp'[c].data.email)
                       /\ SameIgnoringCase(resp'[c].data.email, raw)
                       /\ resp'[c].data.id \in DOMAIN users'
                       /\ users'[resp'[c].data.id].email = resp'[c].data.email
               /\ Cardinality(WithEmail(users', raw)) = 1]_vars

(* the second create, sent in the other letter case, was refused            *)
C2_Witness ==
    /\ Answered("c1", "create")
    /\ resp["c1"].message = "User already exists"
    /\ Cardinality(WithEmail(users, req["c1"].body.fields.email)) = 1
    /\ \E id \in DOMAIN users : users[id].email # req["c1"].body.fields.email
                                /\ SameIgnoringCase(users[id].email,
                                                    req["c1"].body.fields.email)

(* C3: for every number of stored users, every requested page (absent or   *)
(* an integer) and every limit that is absent or at least 1, the list      *)
(* reports totalUsers = the user count, totalPages = ceil(totalUsers /     *)
(* limit) with limit 5 when absent, currentPage = the requested page (1    *)
(* when absent) clamped into [1, totalPages] and 1 when totalPages is 0,   *)
(* hasNext = (currentPage < totalPages) and hasPrev = (currentPage > 1).   *)
C3_PaginationFields ==
    (/\ IsHttp(listResp)
     /\ listReq.limit.given => listReq.limit.n >= 1)
    => LET limit == IF listReq.limit.given THEN listReq.limit.n ELSE 5
           page == IF listReq.page.given THEN listReq.page.n ELSE 1
           total == Cardinality(DOMAIN users)
           r == listResp
       IN  /\ r.totalUsers = total
           /\ r.limit = limit
           /\ r.totalPages * limit >= total
           /\ (r.totalPages - 1) * limit < total
           /\ r.totalPages = 0 => r.currentPage = 1
           /\ r.totalPages > 0 =>
                 /\ page < 1 => r.currentPage = 1
                 /\ page > r.totalPages => r.currentPage = r.totalPages
                 /\ (1 <= page /\ page <= r.totalPages) => r.currentPage = page
           /\ r.hasNext = (r.currentPage < r.totalPages)
           /\ r.hasPrev = (r.currentPage > 1)

(* a page beyond the last one was asked for and clamped to the last         *)
C3_Witness ==
    /\ IsHttp(listResp)
    /\ listReq.page.given /\ listReq.page.n > listResp.totalPages
    /\ listReq.limit.given /\ listReq.limit.n > 1
    /\ listResp.totalPages > 1
    /\ listResp.currentPage = listResp.totalPages
    /\ listResp.hasPrev /\ ~listResp.hasNext

(* the number of stored users created later than the row, plus one          *)
Rank(row) ==
    1 + Cardinality({id \in DOMAIN users : users[id].createdAt > row.createdAt})

(* C4: for every requested page and limit (any integers, or absent) the     *)
(* list returns at most `limit` records, limit being the value the         *)
(* response reports: the users at positions offset+1 .. offset+limit of    *)
(* the users ordered by creation time descending, offset = (currentPage -  *)
(* 1) * limit; with 12 users and limit 5, page 1 returns 5 items and pages *)
(* 3 and 99 the same 2 items.                                              *)
C4_AtMostLimitRecords ==
    IsHttp(listResp)
    => LET r == listResp
           offset == (r.currentPage - 1) * r.limit
           total == Cardinality(DOMAIN users)
       IN  /\ Len(r.data) <= r.limit
           /\ \A k \in 1..Len(r.data) :
                 r.data[k] \in Rows /\ Rank(r.data[k]) = offset + k
           /\ \A id \in DOMAIN users :
                 (offset < Rank(users[id]) /\ Rank(users[id]) <= offset + r.limit)
                 => \E k \in 1..Len(r.data) : r.data[k] = users[id]
           /\ (total = 12 /\ listReq.limit.given /\ listReq.limit.n = 5
               /\ listReq.page.given)
              => /\ listReq.page.n = 1 => Len(r.data) = 5
                 /\ listReq.page.n \in {3, 99} =>
                       Len(r.data) = 2 /\ Rank(r.data[1]) = 11

(* C5: deleting an id that no stored user has is answered with a client     *)
(* error whose message names that id, and no step of the request changes   *)
(* the store.                                                              *)
C5_DeleteMissing ==
    [][\A c \in Clients :
        /\ (pc[c] = "delete" /\ pc'[c] # "delete" /\ req[c].id \notin DOMAIN users)
           => /\ IsHttp(resp'[c])
              /\ resp'[c].status = 400
              /\ resp'[c].message = "User with id " \o req[c].id \o " not found"
              /\ users' = users
        /\ (pc[c] = "idle" /\ pc'[c] = "delete") => users' = users]_vars

(* a delete of an absent id was refused while another user is stored        *)
C5_Witness ==
    \E c \in Clients :
        /\ Answered(c, "delete")
        /\ resp[c].status = 400
        /\ req[c].id \notin DOMAIN users
        /\ users # <<>>

(* C6: a successful update whose body holds only a valid name sets that     *)
(* user's name (trimmed) and updatedAt and nothing else: the user's other  *)
(* fields, every other user and the set of stored ids stay as they were.   *)
C6_NameOnlyUpdate ==
    [][\A c \in Clients :
        (/\ Answers(c, "update")
         /\ IsObject(req[c].body)
         /\ DOMAIN req[c].body.fields = {"name"}
         /\ IsHttp(resp'[c])
         /\ resp'[c].status = 200)
        => LET id == req[c].id
           IN  /\ id \in DOMAIN users
               /\ DOMAIN users' = DOMAIN users
               /\ DOMAIN users'[id] = DOMAIN users[id]
               /\ IsTrimOf(users'[id].name, req[c].body.fields.name)
               /\ users'[id].updatedAt = now
               /\ \A f \in DOMAIN users[id] \ {"name", "updatedAt"} :
                     users'[id][f] = users[id][f]
               /\ \A other \in DOMAIN users \ {id} : users'[other] = users[other]
               /\ resp'[c].data = users'[id]]_vars

(* a name-only update went through, later than the user was created, with   *)
(* another user stored                                                     *)
C6_Witness ==
    /\ Answered("c1", "update")
    /\ resp["c1"].status = 200
    /\ DOMAIN req["c1"].body.fields = {"name"}
    /\ req["c1"].id \in DOMAIN users
    /\ users[req["c1"].id].name = <<"B", "o">>
    /\ users[req["c1"].id].updatedAt > users[req["c1"].id].createdAt
    /\ Cardinality(DOMAIN users) > 1

(* C7: a get-by-id of an id that a create response returned, with no        *)
(* update or delete of that id in between, succeeds and returns a record   *)
(* equal, field by field, to the data of the create response.              *)
C7_CreateGetRoundTrip ==
    \A c \in Clients :
        (Answered(c, "get") /\ req[c].id \in DOMAIN created)
        => /\ resp[c].success
           /\ DOMAIN resp[c].data = DOMAIN created[req[c].id]
           /\ \A f \in DOMAIN resp[c].data :
                 resp[c].data[f] = created[req[c].id][f]

(* the get of the second user created, some time after its creation         *)
C7_Witness ==
    /\ Answered("c1", "get")
    /\ req["c1"].id \in DOMAIN created
    /\ resp["c1"].success
    /\ resp["c1"].data.id = req["c1"].id
    /\ Cardinality(DOMAIN users) > 1
    /\ now > resp["c1"].data.createdAt

(* C8: a create that is rejected (body not an object, schema validation,    *)
(* email already stored) is answered with status 200 and success:false     *)
(* carrying the errors, 201 being used only when the user was created,     *)
(* and adds no user.                                                       *)
C8_RejectedCreateIs200 ==
    [][\A c \in Clients :
        Answers(c, "create")
        => IF resp'[c].success
           THEN resp'[c].status = 201 /\ resp'[c].data.id \in DOMAIN users' \ DOMAIN users
           ELSE /\ resp'[c].status = 200
                /\ Len(resp'[c].errors) > 0
                /\ users' = users]_vars

(* C9: under any interleaving of concurrent requests, every delete and      *)
(* every update ends in success or in a client error, never in a server    *)
(* error.                                                                  *)
C9_NoServerErrorOnDeleteUpdate ==
    \A c \in Clients :
        (Answered(c, "delete") \/ Answered(c, "update"))
        => resp[c].status \in {200, 400}

(* C10: the uniqueness check of an update leaves the updated record out:   *)
(* an email that, letter case aside, a different stored user holds is       *)
(* refused with a client error and no record changes, any other email       *)
(* passes the check; and the write of a user's own current email, in any    *)
(* letter case, succeeds and leaves that email as it was.                   *)
C10_UpdateEmailExcludesSelf ==
    [][\A c \in Clients :
        LET id == req[c].id
            raw == req[c].body.fields.email
        IN  /\ (pc[c] = "update_email" /\ pc'[c] # "update_email")
               => /\ users' = users
                  /\ IF WithEmail(users, raw) \ {id} # {}
                     THEN /\ pc'[c] = "idle"
                          /\ IsHttp(resp'[c])
                          /\ resp'[c].status = 400
                     ELSE pc'[c] = "update_write"
            /\ (/\ pc[c] = "update_write" /\ pc'[c] = "idle"
                /\ "email" \in DOMAIN req[c].body.fields
                /\ id \in DOMAIN users
                /\ SameIgnoringCase(users[id].email, raw))
               => /\ IsHttp(resp'[c])
                  /\ resp'[c].status = 200
                  /\ id \in DOMAIN users'
                  /\ users'[id].email = users[id].email]_vars

(* a user was updated with its own email written in upper case, another     *)
(* user being stored                                                       *)
C10_Witness ==
    \E c \in Clients :
        /\ Answered(c, "update")
        /\ resp[c].status = 200
        /\ "email" \in DOMAIN req[c].body.fields
        /\ req[c].id \in DOMAIN users
        /\ users[req[c].id].email # req[c].body.fields.email
        /\ SameIgnoringCase(users[req[c].id].email, req[c].body.fields.email)
        /\ Cardinality(DOMAIN users) > 1

=============================================================================
